---- MODULE Spec2Model ----
(***************************************************************************)
(* A model of yfp's extraction and normalisation engine:                   *)
(*   src/src/lib.rs        parse_html, OHLCV::insert,                      *)
(*                         get_array_size_for_frequency                    *)
(*   src/src/date_util.rs  Date (Serialize / Deserialize),                 *)
(*                         timestamp_to_date, date_string_to_timestamp,    *)
(*                         date_to_timestamp, human_readable_date          *)
(*                                                                         *)
(* Text is a sequence of one-character strings, so that parsing and        *)
(* formatting are computed rather than assumed.  A parsed f64 is held as   *)
(* an integer count of 10^-FracDigits units.  64-bit quantities are held   *)
(* as four 16-bit limbs (least significant first), because the values      *)
(* that matter to Date::serialize do not fit TLC's integers.               *)
(***************************************************************************)
EXTENDS Integers, Sequences, FiniteSets, TLC

\* ------------------------------------------------------------------ bounds

\* Longest table body (rows of the first tbody) the model enumerates.
MaxRows == 2

\* Fractional decimal digits kept of a parsed f64.
FracDigits == 1

\* ------------------------------------------------------------------- text

DigitChars == <<"0", "1", "2", "3", "4", "5", "6", "7", "8", "9">>

IsDigit(c) == \E i \in 1..10 : DigitChars[i] = c

DigitVal(c) == (CHOOSE i \in 1..10 : DigitChars[i] = c) - 1

\* Number of consecutive digits of s from position pos on, at most maxw.
RECURSIVE CountDigits(_, _, _)
CountDigits(s, pos, maxw) ==
    IF maxw = 0 \/ pos > Len(s) \/ ~IsDigit(s[pos]) THEN 0
    ELSE 1 + CountDigits(s, pos + 1, maxw - 1)

\* Value of the n digits of s that start at pos.
RECURSIVE DigitsValue(_, _, _)
DigitsValue(s, pos, n) ==
    IF n = 0 THEN 0
    ELSE 10 * DigitsValue(s, pos, n - 1) + DigitVal(s[pos + n - 1])

\* Position of the first non-space character of s at or after pos.
RECURSIVE SkipSpaces(_, _)
SkipSpaces(s, pos) ==
    IF pos <= Len(s) /\ s[pos] = " " THEN SkipSpaces(s, pos + 1) ELSE pos

\* Decimal digits of a natural number, no padding.
RECURSIVE NatToText(_)
NatToText(n) ==
    IF n < 10 THEN <<DigitChars[n + 1]>>
    ELSE NatToText(n \div 10) \o <<DigitChars[(n % 10) + 1]>>

\* Decimal digits of a natural number, zero-padded to at least w digits.
RECURSIVE PadNat(_, _)
PadNat(n, w) ==
    LET t == NatToText(n) IN
    IF Len(t) >= w THEN t ELSE <<"0">> \o PadNat(n, w - 1)

\* ---------------------------------------------------------------- calendar

IsLeap(y) == (y % 4 = 0 /\ y % 100 # 0) \/ y % 400 = 0

DaysInMonth(y, m) ==
    IF m = 2 THEN (IF IsLeap(y) THEN 29 ELSE 28)
    ELSE IF m \in {4, 6, 9, 11} THEN 30 ELSE 31

ValidYmd(y, m, d) == m \in 1..12 /\ d >= 1 /\ d <= DaysInMonth(y, m)

\* Days from 1970-01-01 to the proleptic Gregorian date y-m-d.
DaysFromCivil(y, m, d) ==
    LET yy  == IF m <= 2 THEN y - 1 ELSE y
        era == yy \div 400
        yoe == yy - era * 400
        mp  == (m + 9) % 12
        doy == (153 * mp + 2) \div 5 + d - 1
        doe == yoe * 365 + yoe \div 4 - yoe \div 100 + doy
    IN era * 146097 + doe - 719468

\* The proleptic Gregorian date of the day z days after 1970-01-01.
CivilFromDays(z) ==
    LET zz  == z + 719468
        era == zz \div 146097
        doe == zz - era * 146097
        yoe == (doe - doe \div 1460 + doe \div 36524 - doe \div 146096) \div 365
        doy == doe - (365 * yoe + yoe \div 4 - yoe \div 100)
        mp  == (5 * doy + 2) \div 153
        d   == doy - (153 * mp + 2) \div 5 + 1
        m   == IF mp < 10 THEN mp + 3 ELSE mp - 9
        y   == yoe + era * 400 + (IF m <= 2 THEN 1 ELSE 0)
    IN [y |-> y, m |-> m, d |-> d]

MonthAbbr ==
    << <<"J","a","n">>, <<"F","e","b">>, <<"M","a","r">>, <<"A","p","r">>,
       <<"M","a","y">>, <<"J","u","n">>, <<"J","u","l">>, <<"A","u","g">>,
       <<"S","e","p">>, <<"O","c","t">>, <<"N","o","v">>, <<"D","e","c">> >>

MonthName ==
    << <<"J","a","n","u","a","r","y">>, <<"F","e","b","r","u","a","r","y">>,
       <<"M","a","r","c","h">>, <<"A","p","r","i","l">>, <<"M","a","y">>,
       <<"J","u","n","e">>, <<"J","u","l","y">>, <<"A","u","g","u","s","t">>,
       <<"S","e","p","t","e","m","b","e","r">>, <<"O","c","t","o","b","e","r">>,
       <<"N","o","v","e","m","b","e","r">>, <<"D","e","c","e","m","b","e","r">> >>

NoDate == [ok |-> FALSE, y |-> 0, m |-> 0, d |-> 0]

\* NaiveDate::parse_from_str(s, "%Y-%m-%d"): a year of one to four digits,
\* "-", a month of one or two digits, "-", a day of one or two digits, and
\* nothing after it; the three numbers must name a calendar day.  (A signed
\* year, which chrono also reads, is outside the texts modelled.)
ParseYmd(s) ==
    LET ny == CountDigits(s, 1, 4)
        pm == ny + 2
        nm == CountDigits(s, pm, 2)
        pd == pm + nm + 1
        nd == CountDigits(s, pd, 2)
    IN IF /\ ny >= 1 /\ Len(s) >= ny + 1 /\ s[ny + 1] = "-"
          /\ nm >= 1 /\ Len(s) >= pm + nm /\ s[pm + nm] = "-"
          /\ nd >= 1 /\ Len(s) = pd + nd - 1
       THEN LET y == DigitsValue(s, 1, ny)
                m == DigitsValue(s, pm, nm)
                d == DigitsValue(s, pd, nd)
            IN IF ValidYmd(y, m, d)
               THEN [ok |-> TRUE, y |-> y, m |-> m, d |-> d]
               ELSE NoDate
       ELSE NoDate

\* NaiveDate::parse_from_str(s, "%b %-d,%Y"): a three-letter month, any
\* run of spaces, a day of one or two digits, ",", a year of one to four
\* digits (chrono skips spaces before each number, so "Dec 20, 2024" is
\* read as well as "Dec 20,2024"), and nothing after it.
ParseBdY(s) ==
    IF Len(s) < 3 \/ ~(\E i \in 1..12 : MonthAbbr[i] = SubSeq(s, 1, 3))
    THEN NoDate
    ELSE
    LET m  == CHOOSE i \in 1..12 : MonthAbbr[i] = SubSeq(s, 1, 3)
        pd == SkipSpaces(s, 4)
        nd == CountDigits(s, pd, 2)
        pcm == pd + nd
        py == SkipSpaces(s, pcm + 1)
        ny == CountDigits(s, py, 4)
    IN IF /\ nd >= 1 /\ Len(s) >= pcm /\ s[pcm] = ","
          /\ ny >= 1 /\ Len(s) = py + ny - 1
       THEN LET y == DigitsValue(s, py, ny)
                d == DigitsValue(s, pd, nd)
            IN IF ValidYmd(y, m, d)
               THEN [ok |-> TRUE, y |-> y, m |-> m, d |-> d]
               ELSE NoDate
       ELSE NoDate

\* ------------------------------------------------------------------- f64

\* 10^FracDigits: the units a parsed f64 counts.
Scale == 10 ^ FracDigits

\* An f64 is num/den with den = 1 (converted from an integer) or den = Scale
\* (parsed from a cell).  NaN, the infinities, exponents and values that need
\* more than FracDigits fractional digits are outside the texts modelled.
F64Zero == [num |-> 0, den |-> 1]

\* `x as f64` of an i64 (lib.rs:152): exact for every epoch chrono can give.
I64AsF64(n) == [num |-> n, den |-> 1]

\* `x as u64` of an f64 (lib.rs:33, lib.rs:39): Rust's saturating cast, which
\* truncates toward zero and maps every negative value to 0.  (Values above
\* 2^64 - 1, which saturate there, are outside the values modelled.)
F64AsU64(x) == IF x.num <= 0 THEN 0 ELSE x.num \div x.den

\* text.replace(",", "") (lib.rs:163).
StripCommas(t) == SelectSeq(t, LAMBDA c : c # ",")

NoF64 == [ok |-> FALSE, v |-> F64Zero]

\* text.parse::<f64>() (lib.rs:166): an optional sign, then digits with an
\* optional "." and more digits ("5.", ".5" and "5" are numbers, "." and ""
\* are not), and nothing after it.  The texts modelled carry at most
\* FracDigits fractional digits and no exponent, "inf" or "nan".
ParseF64(t) ==
    LET signed == Len(t) >= 1 /\ t[1] \in {"+", "-"}
        p      == IF signed THEN 2 ELSE 1
        ni     == CountDigits(t, p, Len(t))
        dot    == Len(t) >= p + ni /\ t[p + ni] = "."
        nf     == IF dot THEN CountDigits(t, p + ni + 1, Len(t)) ELSE 0
        last   == IF dot THEN p + ni + nf ELSE p + ni - 1
    IN IF ni + nf >= 1 /\ last = Len(t) /\ nf <= FracDigits
       THEN LET mag == DigitsValue(t, p, ni) * Scale
                       + DigitsValue(t, p + ni + 1, nf) * 10 ^ (FracDigits - nf)
                sgn == IF signed /\ t[1] = "-" THEN -1 ELSE 1
            IN [ok |-> TRUE, v |-> [num |-> sgn * mag, den |-> Scale]]
       ELSE NoF64

\* ------------------------------------------------------- date_util (i64)

\* date_string_to_timestamp (date_util.rs:57-61): "Mon D,YYYY" to the epoch
\* seconds of that day's UTC midnight.  The days modelled keep the product
\* inside TLC's integers.
date_string_to_timestamp(s) ==
    LET p == ParseBdY(s)
    IN IF p.ok THEN [ok |-> TRUE, ts |-> DaysFromCivil(p.y, p.m, p.d) * (24 * 60 * 60)]
       ELSE [ok |-> FALSE, ts |-> 0]

\* ------------------------------------------------------------ the inputs

T_Dec24 == <<"D","e","c"," ","2","4",",","2","0","2","0">>
T_Dec25 == <<"D","e","c"," ","2","5",","," ","2","0","2","0">>
T_Epoch == <<"J","a","n"," ","1",",","1","9","7","0">>
T_Dec31_1969 == <<"D","e","c"," ","3","1",",","1","9","6","9">>
T_Header == <<"D","a","t","e">>
T_Split == <<"2","-","f","o","r","-","1"," ","S","p","l","i","t">>
T_Dash == <<"-">>

\* Rows as the sequences of their td cells' inner text.
RowExample ==
    <<T_Dec24, <<"1",".","0">>, <<"2",".","0">>, <<"0",".","5">>, <<"1",".","5">>,
      <<"1",".","5">>, <<"1","0","0">> >>

RowAnnotation == <<T_Dec24, T_Split>>

RowHeader ==
    <<T_Header, <<"1">>, <<"2">>, <<"3">>, <<"4">>, <<"5">>, <<"6">>, <<"7">> >>

RowSparse ==
    <<T_Dec25, <<"1",",","2","3","4",".","5">>, T_Dash, <<"2",".","5">>, <<"-","0",".","5">>,
      <<"2">>, <<"-","5",".","7">> >>

RowSevenNumeric == RowExample \o << <<"9">> >>

RowSevenText ==
    <<T_Dec24, <<"1",".","0">>, <<"2",".","0">>, <<"0",".","5">>, <<"1",".","5">>,
      <<"1",".","5">>, <<"1","0","0",".","9">>, T_Dash>>

RowEpochZero == <<T_Epoch, <<"1",".","0">> >>

RowBefore1970 == <<T_Dec31_1969, T_Dash, <<"7",".","5">> >>

RowNoCells == << >>

\* RowExample itself is left out: RowSevenNumeric and RowSevenText hold its
\* six numeric cells.
RowPool ==
    { RowAnnotation, RowHeader, RowSparse, RowSevenNumeric, RowSevenText,
      RowEpochZero, RowBefore1970, RowNoCells }

RECURSIVE SeqsUpTo(_, _)
SeqsUpTo(S, n) ==
    IF n = 0 THEN { << >> }
    ELSE LET shorter == SeqsUpTo(S, n - 1)
         IN shorter \cup { Append(q, x) : q \in shorter, x \in S }

\* A document: whether it holds a tbody, and the rows of the first one.
DocPool ==
    { [tbody |-> TRUE, rows |-> r] : r \in SeqsUpTo(RowPool, MaxRows) }
    \cup { [tbody |-> FALSE, rows |-> << >>] }

D_2020_01_01 == <<"2","0","2","0","-","0","1","-","0","1">>
D_2020_02_20 == <<"2","0","2","0","-","0","2","-","2","0">>
D_2020_01_10 == <<"2","0","2","0","-","0","1","-","1","0">>
D_2020_03_01 == <<"2","0","2","0","-","0","3","-","0","1">>
D_2020_02_30 == <<"2","0","2","0","-","0","2","-","3","0">>
D_Slashes == <<"2","0","2","0","/","0","1","/","0","1">>
D_2020_01_09 == <<"2","0","2","0","-","0","1","-","0","9">>

FrequencyPool == {"Daily", "Weekly", "Monthly"}

StartPool == {D_2020_01_01, D_2020_02_20, D_Slashes}

None == [some |-> FALSE]

Some(x) == [some |-> TRUE, v |-> x]

EndPool == {None, Some(D_2020_01_10), Some(D_2020_02_30)}

\* Local::now().format("%Y-%m-%d") (lib.rs:127): always a valid date text.
TodayPool == {D_2020_01_09, D_2020_03_01}

\* The effective ends: end.unwrap_or_else(|| &today) (lib.rs:128).
EffectiveEnds(e) == IF e.some THEN {e.v} ELSE TodayPool

\* ------------------------------------------------------------- the state

VARIABLES
    doc,          \* the HTML document: [tbody, rows]
    freq,         \* parse_html's freq argument
    start,        \* parse_html's start argument
    end,          \* the effective end (lib.rs:128)
    pc,           \* where the running call is: "select", "capacity", "rows",
                  \* or how it ended: "done", "error", "panic"
    err,          \* the error of a call that ended "error"
    capacity,     \* get_array_size_for_frequency's answer (lib.rs:135)
    candlesticks, \* the records pushed so far (lib.rs:137)
    origin,       \* for each record of candlesticks, the index of its row
    rowIdx,       \* rows taken from the iterator so far (lib.rs:142)
    prev,         \* the outcome of the previous call on the same document
    dVal,         \* a Date value (date_util.rs:6-9)
    dSrc,         \* the text dVal was deserialized from, if it was
    dOut,         \* the outcome of serializing dVal
    dHuman        \* the last answer of human_readable_date

parseVars ==
    <<doc, freq, start, end, pc, err, capacity, candlesticks, origin, rowIdx, prev>>

dateVars == <<dVal, dSrc, dOut, dHuman>>

vars == <<parseVars, dateVars>>

\* --------------------------------------------- get_array_size_for_frequency

\* Rust's integer division, which rounds toward zero.
TruncDiv(a, b) == IF a >= 0 THEN a \div b ELSE -((-a) \div b)

Max(a, b) == IF a >= b THEN a ELSE b

\* (end - start).num_days() (lib.rs:190).
NumDays(s, e) == DaysFromCivil(e.y, e.m, e.d) - DaysFromCivil(s.y, s.m, s.d)

\* (end - start).num_weeks() (lib.rs:191).
NumWeeks(s, e) == TruncDiv(NumDays(s, e), 7)

\* The match on freq with the .max(0) left out.
EstimateForNoFloor(f, s, e) ==
    CASE f = "Daily"   -> Some(NumDays(s, e))
      [] f = "Weekly"  -> Some(NumWeeks(s, e))
      [] f = "Monthly" -> None

\* The match on freq (lib.rs:189-194).
EstimateFor(f, s, e) ==
    CASE f = "Daily"   -> Some(Max(NumDays(s, e), 0))
      [] f = "Weekly"  -> Some(Max(NumWeeks(s, e), 0))
      [] f = "Monthly" -> None

\* get_array_size_for_frequency (lib.rs:181-197): both dates are parsed first,
\* whatever the frequency.
get_array_size_for_frequency(f, s, e) ==
    LET ps == ParseYmd(s)
        pe == ParseYmd(e)
    IN IF ~ps.ok \/ ~pe.ok THEN [ok |-> FALSE, cap |-> None]
       ELSE [ok |-> TRUE, cap |-> EstimateFor(f, ps, pe)]

\* ----------------------------------------------------------- one table row

\* let mut ohlcv_vec = [0_f64; 7] (lib.rs:144).  Position k + 1 here is
\* index k there.
NewRowBuffer == [k \in 1..7 |-> F64Zero]

\* The first cell as a date (lib.rs:148-154): 0.0 for a row with no cell and
\* for a first cell that is no date.
RowDate(row) ==
    IF Len(row) = 0 THEN F64Zero
    ELSE LET r == date_string_to_timestamp(row[1])
         IN IF r.ok THEN I64AsF64(r.ts) ELSE F64Zero

\* The index written with the `+ 1` left out.
SlotIndexFromZero(i) == i

\* The index written for the cell that enumerate() numbers i (lib.rs:168).
SlotIndex(i) == i + 1

\* The loop over the cells after the first (lib.rs:162-170), from the cell
\* numbered i on.  A write past index 6 is Rust's index-out-of-bounds panic.
RECURSIVE ScanCells(_, _, _)
ScanCells(cells, i, acc) ==
    IF i >= Len(cells) \/ acc.panic THEN acc
    ELSE LET val == ParseF64(StripCommas(cells[i + 1]))
         IN IF ~val.ok THEN ScanCells(cells, i + 1, acc)
            ELSE IF SlotIndex(i) > 6
                 THEN [acc EXCEPT !.empty = FALSE, !.panic = TRUE]
                 ELSE ScanCells(cells, i + 1,
                        [acc EXCEPT !.empty = FALSE,
                                    !.vec[SlotIndex(i) + 1] = val.v])

\* OHLCV::insert (lib.rs:32-40) on a default record.
Insert(sli) ==
    [date |-> F64AsU64(sli[1]), open |-> sli[2], high |-> sli[3], low |-> sli[4],
     close |-> sli[5], adj_close |-> sli[6], volume |-> F64AsU64(sli[7])]

\* The body of the loop with the `if !empty` test left out.
ScanRowNoEmptyTest(row) ==
    LET date == RowDate(row)
    IN IF date.num = 0 THEN [kind |-> "skip"]
       ELSE LET acc == ScanCells(Tail(row), 0,
                         [vec |-> [NewRowBuffer EXCEPT ![1] = date],
                          empty |-> TRUE, panic |-> FALSE])
            IN IF acc.panic THEN [kind |-> "panic"]
               ELSE [kind |-> "push", rec |-> Insert(acc.vec)]

\* The body of the loop over the rows (lib.rs:143-175) for one row:
\* "skip" (continue, or nothing numeric), "push" with the record, or "panic".
ScanRow(row) ==
    LET date == RowDate(row)
    IN IF date.num = 0 THEN [kind |-> "skip"]
       ELSE LET acc == ScanCells(Tail(row), 0,
                         [vec |-> [NewRowBuffer EXCEPT ![1] = date],
                          empty |-> TRUE, panic |-> FALSE])
            IN IF acc.panic THEN [kind |-> "panic"]
               ELSE IF acc.empty THEN [kind |-> "skip"]
               ELSE [kind |-> "push", rec |-> Insert(acc.vec)]

\* Vec::with_capacity(cap) or vec![] (lib.rs:137-141): empty either way.
NewVec(cap) == << >>

\* A push at the front.
PushFront(v, x) == <<x>> \o v

\* A push that stops at the capacity estimate.
PushWithinCapacity(v, x) ==
    IF capacity.some /\ Len(v) >= capacity.v THEN v ELSE Append(v, x)

\* candlesticks.push(ohlcv) (lib.rs:174).
Push(v, x) == Append(v, x)

\* ------------------------------------------------------------- parse_html

NoCall == [ran |-> FALSE]

Outcome == [ran |-> TRUE, pc |-> pc, err |-> err, records |-> candlesticks,
            datesOk |-> ParseYmd(start).ok /\ ParseYmd(end).ok]

Finished == pc \in {"done", "error", "panic"}

\* The state in which a call with these arguments starts: today and the
\* effective end are fixed first (lib.rs:127-128).
Enter(f, s, e) ==
    /\ freq' = f
    /\ start' = s
    /\ end' \in EffectiveEnds(e)
    /\ pc' = "select"
    /\ err' = "none"
    /\ capacity' = None
    /\ candlesticks' = << >>
    /\ origin' = << >>
    /\ rowIdx' = 0

\* The first tbody is looked up (lib.rs:130-133).
SelectTbody ==
    /\ pc = "select"
    /\ IF doc.tbody THEN pc' = "capacity" /\ err' = err
       ELSE pc' = "error" /\ err' = "No tbody tag"
    /\ UNCHANGED <<doc, freq, start, end, capacity, candlesticks, origin, rowIdx, prev>>
    /\ UNCHANGED dateVars

\* The output buffer is sized (lib.rs:135-141).
SizeBuffer ==
    /\ pc = "capacity"
    /\ LET r == get_array_size_for_frequency(freq, start, end)
       IN IF r.ok
          THEN /\ pc' = "rows"
               /\ err' = err
               /\ capacity' = r.cap
               /\ candlesticks' = NewVec(r.cap)
          ELSE /\ pc' = "error"
               /\ err' = "date parse"
               /\ UNCHANGED <<capacity, candlesticks>>
    /\ UNCHANGED <<doc, freq, start, end, origin, rowIdx, prev>>
    /\ UNCHANGED dateVars

\* One turn of the loop over the rows (lib.rs:142-176).
NextRow ==
    /\ pc = "rows"
    /\ rowIdx < Len(doc.rows)
    /\ LET r == ScanRow(doc.rows[rowIdx + 1])
       IN /\ rowIdx' = rowIdx + 1
          /\ pc' = IF r.kind = "panic" THEN "panic" ELSE "rows"
          /\ IF r.kind = "push"
             THEN /\ candlesticks' = Push(candlesticks, r.rec)
                  /\ origin' = Append(origin, rowIdx + 1)
             ELSE UNCHANGED <<candlesticks, origin>>
    /\ UNCHANGED <<doc, freq, start, end, err, capacity, prev>>
    /\ UNCHANGED dateVars

\* Ok(candlesticks) (lib.rs:178).
Return ==
    /\ pc = "rows"
    /\ rowIdx = Len(doc.rows)
    /\ pc' = "done"
    /\ UNCHANGED <<doc, freq, start, end, err, capacity, candlesticks, origin, rowIdx, prev>>
    /\ UNCHANGED dateVars

\* A second call on the same document, with arguments of its own.  Nothing
\* of the first call is passed to it: parse_html owns all its state.
CallAgain ==
    /\ Finished
    /\ ~prev.ran
    /\ prev' = Outcome
    /\ \E f \in FrequencyPool, s \in StartPool, e \in EndPool : Enter(f, s, e)
    /\ UNCHANGED doc
    /\ UNCHANGED dateVars

\* Date::default() (date_util.rs:11-15), nothing done with it yet.
DateIdle ==
    /\ dVal = [tag |-> "Timestamp", ts |-> <<0, 0, 0, 0>>]
    /\ dSrc = None
    /\ dOut = None
    /\ dHuman = [arg |-> << >>, res |-> None]

Init ==
    /\ doc \in DocPool
    /\ freq \in FrequencyPool
    /\ start \in StartPool
    /\ \E e \in EndPool : end \in EffectiveEnds(e)
    /\ pc = "select"
    /\ err = "none"
    /\ capacity = None
    /\ candlesticks = << >>
    /\ origin = << >>
    /\ rowIdx = 0
    /\ prev = NoCall
    /\ DateIdle

Next == SelectTbody \/ SizeBuffer \/ NextRow \/ Return \/ CallAgain

Spec == Init /\ [][Next]_vars

\* ------------------------------------------------------ 64-bit arithmetic

\* A 64-bit word is four limbs of 16 bits, least significant first; an i64
\* is the word of its two's complement.
Base == 2 ^ 16

Zero64 == <<0, 0, 0, 0>>

\* x * k + a, for small k and a: the low 64 bits and what is carried out.
RECURSIVE MulAddFrom(_, _, _, _)
MulAddFrom(x, k, carry, i) ==
    IF i > 4 THEN [lo |-> << >>, carry |-> carry]
    ELSE LET t    == x[i] * k + carry
             rest == MulAddFrom(x, k, t \div Base, i + 1)
         IN [lo |-> <<t % Base>> \o rest.lo, carry |-> rest.carry]

MulAdd(x, k, a) == MulAddFrom(x, k, a, 1)

\* x divided by a small d, rounded down: the quotient and the remainder.
RECURSIVE DivFrom(_, _, _, _)
DivFrom(x, d, r, i) ==
    IF i < 1 THEN [q |-> << >>, r |-> r]
    ELSE LET t    == r * Base + x[i]
             rest == DivFrom(x, d, t % d, i - 1)
         IN [q |-> Append(rest.q, t \div d), r |-> rest.r]

FloorDiv64(x, d) == DivFrom(x, d, 0, 4).q

CeilDiv64(x, d) ==
    LET r == DivFrom(x, d, 0, 4)
    IN IF r.r = 0 THEN r.q ELSE MulAdd(r.q, 1, 1).lo

\* The sign bit of an i64.
IsNeg64(x) == x[4] >= Base \div 2

\* The two's complement of x.
Neg64(x) == MulAdd([i \in 1..4 |-> Base - 1 - x[i]], 1, 1).lo

FitsInt(x) == x[3] = 0 /\ x[4] = 0 /\ x[2] < Base \div 2

ToInt(x) == x[2] * Base + x[1]

FromInt(n) == <<n % Base, n \div Base, 0, 0>>

\* The word written in decimal digits.
RECURSIVE U64(_)
U64(ds) ==
    IF Len(ds) = 0 THEN Zero64
    ELSE MulAdd(U64(SubSeq(ds, 1, Len(ds) - 1)), 10, ds[Len(ds)]).lo

\* -------------------------------------------------------------- date_util

\* The years chrono's NaiveDate spans; DateTime::from_timestamp_millis gives
\* None outside them (date_util.rs:50).
ChronoMinYear == -262143

ChronoMaxYear == 262142

ChronoMinDay == DaysFromCivil(ChronoMinYear, 1, 1)

ChronoMaxDay == DaysFromCivil(ChronoMaxYear, 12, 31)

NoDay == [ok |-> FALSE, day |-> 0]

\* The day of DateTime::from_timestamp_millis(ms) for an i64 ms
\* (date_util.rs:50): ms.div_euclid(1000) seconds, that div_euclid(86400)
\* days, None when the day is outside chrono's range.
from_timestamp_millis(ms) ==
    LET mag   == IF IsNeg64(ms) THEN Neg64(ms) ELSE ms
        days  == IF IsNeg64(ms)
                 THEN CeilDiv64(CeilDiv64(CeilDiv64(mag, 1000), 240), 360)
                 ELSE FloorDiv64(FloorDiv64(FloorDiv64(mag, 1000), 240), 360)
        day   == IF IsNeg64(ms) THEN -ToInt(days) ELSE ToInt(days)
    IN IF FitsInt(days) /\ day >= ChronoMinDay /\ day <= ChronoMaxDay
       THEN [ok |-> TRUE, day |-> day]
       ELSE NoDay

\* chrono's %Y: four digits, zero-padded, for the years 0..9999, and a sign
\* followed by the digits outside them.
FormatYear(y) ==
    IF y >= 0 /\ y <= 9999 THEN PadNat(y, 4)
    ELSE IF y > 9999 THEN <<"+">> \o NatToText(y)
    ELSE <<"-">> \o PadNat(-y, 4)

\* date.format("%b %-d, %Y") (date_util.rs:53).
FormatBdY(c) ==
    MonthAbbr[c.m] \o <<" ">> \o NatToText(c.d) \o <<",", " ">> \o FormatYear(c.y)

\* timestamp_to_date (date_util.rs:49-54): the u64 is reinterpreted as an
\* i64 of milliseconds.
timestamp_to_date(timestamp) ==
    LET r == from_timestamp_millis(timestamp)
    IN IF r.ok THEN [kind |-> "ok", text |-> FormatBdY(CivilFromDays(r.day))]
       ELSE [kind |-> "error", text |-> << >>]

\* The serialization with the `* 1000` left out.
SerializeTimestampInSeconds(ts, checked) == timestamp_to_date(ts)

\* `*ts * 1000` (date_util.rs:25): a u64 product.  A build with overflow
\* checks panics when it does not fit; a build without them keeps the low
\* 64 bits.
SerializeTimestamp(ts, checked) ==
    LET m == MulAdd(ts, 1000, 0)
    IN IF m.carry # 0 /\ checked THEN [kind |-> "panic", text |-> << >>]
       ELSE timestamp_to_date(m.lo)

\* Date::serialize (date_util.rs:17-33).
Serialize(date, checked) ==
    IF date.tag = "Timestamp" THEN SerializeTimestamp(date.ts, checked)
    ELSE [kind |-> "ok", text |-> date.text]

\* date_to_timestamp (date_util.rs:64-68): "YYYY-MM-DD" to the epoch seconds
\* of that day's UTC midnight, as an i64.
date_to_timestamp(s) ==
    LET p    == ParseYmd(s)
        day  == DaysFromCivil(p.y, p.m, p.d)
        mag  == MulAdd(MulAdd(FromInt(IF day < 0 THEN -day ELSE day), 240, 0).lo, 360, 0).lo
    IN IF ~p.ok THEN [ok |-> FALSE, ts |-> Zero64]
       ELSE [ok |-> TRUE, ts |-> IF day < 0 THEN Neg64(mag) ELSE mag]

\* `date.max(0) as u64` (date_util.rs:44).
ClampToU64(ts) == IF IsNeg64(ts) THEN Zero64 ELSE ts

\* human_readable_date (date_util.rs:71-82): "Month D, YYYY", the year and
\* the day as plain integers.
human_readable_date(s) ==
    LET p == ParseYmd(s)
    IN IF ~p.ok THEN None
       ELSE Some(MonthName[p.m] \o <<" ">> \o NatToText(p.d) \o <<",", " ">>
                 \o NatToText(p.y))

\* ---------------------------------------------------- the Date operations

D_2005_12_28 == <<"2","0","0","5","-","1","2","-","2","8">>
D_2025_02_09 == <<"2","0","2","5","-","0","2","-","0","9">>
D_1970_01_01 == <<"1","9","7","0","-","0","1","-","0","1">>
D_1970_01_02 == <<"1","9","7","0","-","1","-","2">>
D_1969_12_31 == <<"1","9","6","9","-","1","2","-","3","1">>
D_1900_03_01 == <<"1","9","0","0","-","0","3","-","0","1">>
D_2024_02_29 == <<"2","0","2","4","-","0","2","-","2","9">>
D_2023_02_29 == <<"2","0","2","3","-","0","2","-","2","9">>
D_9999_12_31 == <<"9","9","9","9","-","1","2","-","3","1">>
D_Human == <<"D","e","c"," ","2","8",",","2","0","0","5">>

DateTextPool ==
    { D_2005_12_28, D_2025_02_09, D_1970_01_01, D_1970_01_02, D_1969_12_31,
      D_1900_03_01, D_2024_02_29, D_2023_02_29, D_9999_12_31, D_2020_01_01,
      D_Slashes, D_Human }

\* Epochs: 0; the last second of 1970-01-01; 2005-12-28; the last second of
\* the year 9999; the largest ts with ts * 1000 <= i64::MAX and the next one;
\* the largest ts with ts * 1000 <= u64::MAX and the next one; u64::MAX.
TsPool ==
    { Zero64,
      U64(<<8,6,3,9,9>>),
      U64(<<1,1,3,5,7,2,8,0,0,0>>),
      U64(<<2,5,3,4,0,2,3,0,0,7,9,9>>),
      U64(<<9,2,2,3,3,7,2,0,3,6,8,5,4,7,7,5>>),
      U64(<<9,2,2,3,3,7,2,0,3,6,8,5,4,7,7,6>>),
      U64(<<1,8,4,4,6,7,4,4,0,7,3,7,0,9,5,5,1>>),
      U64(<<1,8,4,4,6,7,4,4,0,7,3,7,0,9,5,5,2>>),
      U64(<<1,8,4,4,6,7,4,4,0,7,3,7,0,9,5,5,1,6,1,5>>) }

HumanPool == { D_Human, <<"D","e","c"," ","2","4",","," ","2","0","2","0">> }

\* Date::deserialize (date_util.rs:35-46).
Deserialize ==
    /\ UNCHANGED parseVars
    /\ \E s \in DateTextPool :
        LET r == date_to_timestamp(s)
        IN IF r.ok
           THEN /\ dVal' = [tag |-> "Timestamp", ts |-> ClampToU64(r.ts)]
                /\ dSrc' = Some(s)
                /\ dOut' = None
                /\ UNCHANGED dHuman
           ELSE /\ dOut' = Some([kind |-> "deserialize error", text |-> << >>])
                /\ UNCHANGED <<dVal, dSrc, dHuman>>

\* Date::Timestamp(ts), as OHLCV::insert builds it (lib.rs:33).
FromEpoch ==
    /\ UNCHANGED parseVars
    /\ \E ts \in TsPool :
        /\ dVal' = [tag |-> "Timestamp", ts |-> ts]
        /\ dSrc' = None
        /\ dOut' = None
        /\ UNCHANGED dHuman

\* Date::Human(text), as the tests build it (lib.rs:355).
FromHuman ==
    /\ UNCHANGED parseVars
    /\ \E t \in HumanPool :
        /\ dVal' = [tag |-> "Human", text |-> t]
        /\ dSrc' = None
        /\ dOut' = None
        /\ UNCHANGED dHuman

\* Date::serialize on the current value, in either kind of build.
SerializeDate ==
    /\ UNCHANGED parseVars
    /\ \E checked \in BOOLEAN :
        /\ dOut' = Some(Serialize(dVal, checked))
        /\ UNCHANGED <<dVal, dSrc, dHuman>>

\* human_readable_date on a text.
HumanReadable ==
    /\ UNCHANGED parseVars
    /\ \E s \in DateTextPool :
        /\ dHuman' = [arg |-> s, res |-> human_readable_date(s)]
        /\ UNCHANGED <<dVal, dSrc, dOut>>

ParseIdle ==
    /\ doc = [tbody |-> FALSE, rows |-> << >>]
    /\ freq = "Monthly"
    /\ start = D_2020_01_01
    /\ end = D_2020_01_10
    /\ pc = "idle"
    /\ err = "none"
    /\ capacity = None
    /\ candlesticks = << >>
    /\ origin = << >>
    /\ rowIdx = 0
    /\ prev = NoCall

InitDate == ParseIdle /\ DateIdle

NextDate == Deserialize \/ FromEpoch \/ FromHuman \/ SerializeDate \/ HumanReadable

SpecDate == InitDate /\ [][NextDate]_vars

\* ------------------------------------------------- what the claims speak of

\* Numeric equality of two f64 values.
F64Eq(a, b) == a.num * b.den = b.num * a.den

\* The cell after the date cell in position k parsed as a number.
CellParses(row, k) == Len(row) >= k + 1 /\ ParseF64(StripCommas(row[k + 1])).ok

\* Its value, and 0 for a cell that is absent or no number.
CellValue(row, k) ==
    IF CellParses(row, k) THEN ParseF64(StripCommas(row[k + 1])).v ELSE F64Zero

\* A qualifying row: its first cell is a date with a non-zero epoch and one
\* of the cells after it is a number.
Qualifies(row) ==
    /\ Len(row) >= 1
    /\ date_string_to_timestamp(row[1]).ok
    /\ date_string_to_timestamp(row[1]).ts # 0
    /\ \E k \in 1..(Len(row) - 1) : CellParses(row, k)

\* The qualifying rows among the rows a document may hold.
QualifyingRows == { r \in RowPool : Qualifies(r) }

\* The indices of the qualifying rows among the first n, in document order.
QualifyingUpTo(rows, n) ==
    SelectSeq([i \in 1..n |-> i], LAMBDA i : rows[i] \in QualifyingRows)

\* For each row a document may hold, what the loop body does with it, and
\* the values of the six cells after its date.
RowOutcome == [r \in RowPool |-> ScanRow(r)]

CellValues == [r \in RowPool |-> [k \in 1..6 |-> CellValue(r, k)]]

\* The row a record of candlesticks came from.
RowOf(j) == doc.rows[origin[j]]

Scanning == pc \in {"rows", "done", "panic"}

\* x rounded toward zero to an integer.
TruncTowardZero(x) == TruncDiv(x.num, x.den)

\* The calendar day after c.
NextDay(c) ==
    IF c.d < DaysInMonth(c.y, c.m) THEN [c EXCEPT !.d = c.d + 1]
    ELSE IF c.m < 12 THEN [c EXCEPT !.m = c.m + 1, !.d = 1]
    ELSE [c EXCEPT !.y = c.y + 1, !.m = 1, !.d = 1]

Before(a, b) ==
    \/ a.y < b.y
    \/ a.y = b.y /\ a.m < b.m
    \/ a.y = b.y /\ a.m = b.m /\ a.d < b.d

\* The whole days from a to b, counted a day at a time; 0 when b is not
\* after a.
RECURSIVE WholeDays(_, _)
WholeDays(a, b) == IF Before(a, b) THEN 1 + WholeDays(NextDay(a), b) ELSE 0

\* The date texts a call may be given as start and as effective end, and
\* the valid ones as calendar days.
BoundTexts == StartPool \cup UNION { EffectiveEnds(e) : e \in EndPool }

ValidBounds == { t \in BoundTexts : ParseYmd(t).ok }

\* Both dates of the running call are valid "YYYY-MM-DD" texts.
DatesValid == start \in ValidBounds /\ end \in ValidBounds

\* The whole days from each valid start to each valid end.
DaysBetween == [s \in ValidBounds |-> [e \in ValidBounds |-> WholeDays(ParseYmd(s), ParseYmd(e))]]

\* The display string of the UTC day that holds the instant ts seconds
\* after the epoch, and an error when chrono has no such day.
DisplayOfEpoch(ts) ==
    LET days == FloorDiv64(FloorDiv64(ts, 240), 360)
    IN IF FitsInt(days) /\ ToInt(days) <= ChronoMaxDay
       THEN [kind |-> "ok", text |-> FormatBdY(CivilFromDays(ToInt(days)))]
       ELSE [kind |-> "error", text |-> << >>]

\* A "Month D, YYYY" phrase with the month cut to its first three letters.
AbbreviateMonth(t) ==
    LET sp == CHOOSE i \in 1..Len(t) : t[i] = " " /\ \A j \in 1..(i - 1) : t[j] # " "
    IN SubSeq(t, 1, 3) \o SubSeq(t, sp, Len(t))

\* dOut is the outcome of serializing the current dVal.
Serialized == dOut.some /\ dOut.v.kind # "deserialize error"

\* ------------------------------------------------------------------ claims

\* C1: every row scanned so far gave exactly one record when it qualifies
\* (a date with a non-zero epoch and a numeric cell after it) and none
\* otherwise, and no row raised an error.
C1_OneRecordPerQualifyingRow ==
    Scanning => pc # "panic" /\ origin = QualifyingUpTo(doc.rows, rowIdx)

\* C2: a row with a valid date and more than six cells after it does not
\* make the call panic, and its record is the record of its first seven
\* cells.
C2_ExtraCellsIgnored ==
    Scanning =>
        /\ pc # "panic"
        /\ \A i \in 1..rowIdx :
              (Len(doc.rows[i]) > 7 /\ RowDate(doc.rows[i]).num # 0)
              => ScanRow(doc.rows[i]) = ScanRow(SubSeq(doc.rows[i], 1, 7))

\* C3: the sequence returned is the records of the qualifying rows, one for
\* each, in document order.
C3_SourceOrder ==
    pc = "done" =>
        /\ origin = QualifyingUpTo(doc.rows, Len(doc.rows))
        /\ Len(candlesticks) = Len(origin)
        /\ \A j \in 1..Len(origin) : candlesticks[j] = RowOutcome[RowOf(j)].rec

C3_Witness ==
    /\ pc = "done"
    /\ Len(candlesticks) >= 2
    /\ doc.rows[origin[1]] = doc.rows[origin[2]]
    /\ candlesticks[1] = candlesticks[2]

\* C4, as stated: the field in position k is the value of the k-th cell
\* after the date, 0 when that cell is absent or no number, and volume is
\* the sixth value truncated toward zero, a non-negative integer.
C4_VolumeTruncated ==
    \A j \in 1..Len(candlesticks) :
        /\ candlesticks[j].volume = TruncTowardZero(CellValues[RowOf(j)][6])
        /\ candlesticks[j].volume >= 0

\* C4, amended: the field in position k is the value of the k-th cell after
\* the date, 0 when that cell is absent or no number; volume is the sixth
\* value truncated toward zero when that value is not negative, and 0 when
\* it is negative.
C4_FieldsByPosition ==
    \A j \in 1..Len(candlesticks) :
        LET rec  == candlesticks[j]
            cell == CellValues[RowOf(j)]
        IN /\ F64Eq(rec.open, cell[1])
           /\ F64Eq(rec.high, cell[2])
           /\ F64Eq(rec.low, cell[3])
           /\ F64Eq(rec.close, cell[4])
           /\ F64Eq(rec.adj_close, cell[5])
           /\ rec.volume = IF cell[6].num < 0 THEN 0 ELSE TruncTowardZero(cell[6])

C4_Witness ==
    /\ Len(candlesticks) >= 2
    /\ RowOf(1) = RowSevenText
    /\ RowOf(2) = RowSparse

\* C5: without a tbody the call ends in the missing-table error with no
\* record and no row scanned; with a tbody, valid dates and no qualifying
\* row it ends Ok with no record.
C5_EmptyAndMissing ==
    /\ ~doc.tbody => pc \in {"select", "error"} /\ rowIdx = 0 /\ candlesticks = << >>
    /\ (~doc.tbody /\ Finished) => err = "No tbody tag"
    /\ (doc.tbody /\ DatesValid /\ Finished
          /\ \A i \in 1..Len(doc.rows) : doc.rows[i] \notin QualifyingRows)
       => pc = "done" /\ candlesticks = << >>

C5_Witness ==
    /\ pc = "done"
    /\ Len(doc.rows) >= 2
    /\ \A i \in 1..Len(doc.rows) : doc.rows[i] \notin QualifyingRows
    /\ doc.rows[1] # doc.rows[2]

\* C7: two calls on the same document whose start and end are valid dates
\* end the same way with the same records, whatever their frequency, start,
\* end and capacity estimate.
C7_SameRecordsWhateverArgs ==
    (Finished /\ prev.ran /\ prev.datesOk /\ DatesValid)
    => prev.pc = pc /\ prev.err = err /\ prev.records = candlesticks

C7_Witness ==
    /\ pc = "done"
    /\ prev.ran
    /\ prev.datesOk
    /\ capacity = Some(0)
    /\ Len(candlesticks) >= 2

\* C8: once the buffer is sized both dates were valid and the estimate is
\* the whole days from start to end (Daily), those days divided by 7 and
\* rounded toward zero (Weekly), both 0 when end is before start, or absent
\* (Monthly); with a tbody and an invalid date the call ends in the date
\* error, whatever the frequency.
C8_CapacityEstimate ==
    /\ Scanning =>
          /\ start \in ValidBounds
          /\ end \in ValidBounds
          /\ LET days == DaysBetween[start][end]
             IN capacity = CASE freq = "Daily"   -> Some(days)
                             [] freq = "Weekly"  -> Some(days \div 7)
                             [] freq = "Monthly" -> None
    /\ (doc.tbody /\ pc # "select" /\ pc # "capacity"
          /\ (start \notin ValidBounds \/ end \notin ValidBounds))
       => pc = "error" /\ err = "date parse"

C8_Witness ==
    /\ pc = "rows"
    /\ freq = "Weekly"
    /\ capacity.some
    /\ capacity.v >= 2
    /\ capacity.v * 7 < DaysBetween[start][end]

\* C10: every record's date is the epoch date_string_to_timestamp gave for
\* the first cell of its row, and it is never 0.
C10_RecordDateIsRowDate ==
    \A j \in 1..Len(candlesticks) :
        /\ candlesticks[j].date = date_string_to_timestamp(RowOf(j)[1]).ts
        /\ candlesticks[j].date # 0

\* C9: serializing Date::Timestamp(ts) gives the display string of the UTC
\* day that holds ts, or an error when there is no such day; never a panic
\* and never another day.
C9_SerializeEpoch ==
    (dVal.tag = "Timestamp" /\ Serialized) => dOut.v = DisplayOfEpoch(dVal.ts)

\* C6, as stated: for every valid "YYYY-MM-DD" text, the value deserialized
\* from it serializes to human_readable_date of the text with the month
\* abbreviated.
C6_RoundTrip ==
    (dSrc.some /\ Serialized)
    => /\ dOut.v.kind = "ok"
       /\ dOut.v.text = AbbreviateMonth(human_readable_date(dSrc.v).v)

\* C6, amended: the same for every valid "YYYY-MM-DD" text of a day on or
\* after 1970-01-01.
C6_RoundTripFrom1970 ==
    (dSrc.some /\ Serialized /\ ParseYmd(dSrc.v).y >= 1970)
    => /\ dOut.v.kind = "ok"
       /\ dOut.v.text = AbbreviateMonth(human_readable_date(dSrc.v).v)

C6_Witness ==
    /\ dSrc = Some(D_2025_02_09)
    /\ Serialized
    /\ dOut.v.text = <<"F","e","b"," ","9",","," ","2","0","2","5">>

====
